---- MODULE Spec2Model ----
(***************************************************************************)
(* Model of leadgen-bot/src/scripts/twitter_fetcher.py: the orchestrator   *)
(* main, the per-query runner scrape_search, the RobustExtractor field     *)
(* extractors and the freshness / negative-filter predicates.              *)
(*                                                                         *)
(* Python strings are sequences of one-character strings.  Optional values *)
(* are records [some |-> BOOLEAN, v |-> value].                            *)
(*                                                                         *)
(* Specifications:                                                         *)
(*   Spec          a whole run of main                                     *)
(*   SpecProcess   the same, with the interruption handled under __main__  *)
(*   SpecQuery     one call of scrape_search, every statement of the       *)
(*                 per-element block fallible, with its history            *)
(*   SpecQueryLive one call of scrape_search with human_like_scroll        *)
(*                 statement by statement, under weak fairness             *)
(*   SpecLocate    the container lookup on its own                         *)
(*   SpecCalls     the per-element block, is_fresh and                     *)
(*                 matches_negative_filters on single arguments            *)
(***************************************************************************)
EXTENDS Integers, Sequences, FiniteSets, TLC

(***************************************************************************)
(* Bounds of the model.                                                    *)
(***************************************************************************)
\* number of entries of SEARCH_QUERIES that a modelled run iterates over
NumQueries == 2
\* largest number of elements one container selector returns
MaxTweets == 3

(***************************************************************************)
(* Program constants.                                                      *)
(***************************************************************************)
\* TWITTER_SEARCH_HOURS default
MAX_HOURS_OLD == 24

\* the clock reading, in hours since an epoch, of datetime.now() in UTC
NowUTC == 1000

\* offset of the machine's local zone, used by the naive datetime.now()
LocalOffset == 0

NEGATIVE_FILTERS ==
    << <<"[","f","o","r"," ","h","i","r","e","]">>,
       <<"i"," ","a","m"," ","a"," ","d","e","v","e","l","o","p","e","r">>,
       <<"i","'","m"," ","a"," ","d","e","v","e","l","o","p","e","r">>,
       <<"i"," ","a","m"," ","a","v","a","i","l","a","b","l","e">>,
       <<"m","y"," ","p","o","r","t","f","o","l","i","o">>,
       <<"h","i","r","e"," ","m","e">>,
       <<"l","o","o","k","i","n","g"," ","f","o","r"," ","w","o","r","k">>,
       <<"s","e","e","k","i","n","g"," ","w","o","r","k">>,
       <<"o","f","f","e","r","i","n","g"," ","m","y"," ","s","e","r","v","i","c","e","s">>,
       <<"a","v","a","i","l","a","b","l","e"," ","f","o","r"," ","h","i","r","e">>,
       <<"d","e","v","e","l","o","p","e","r"," ","l","o","o","k","i","n","g"," ","f","o","r">>,
       <<"o","p","e","n"," ","t","o"," ","w","o","r","k">> >>

\* SelectorRegistry: the chains are represented by their lengths, a selector
\* by its position in its chain
TWEET_CONTAINERS == 3
TWEET_TEXT == 2
AUTHOR == 2
TIMESTAMP == 2

\* the literal '/status/' of extract_url
StatusMarker == <<"/","s","t","a","t","u","s","/">>

\* the literal "https://x.com" of extract_url
Origin == <<"h","t","t","p","s",":","/","/","x",".","c","o","m">>

(***************************************************************************)
(* Python str operations.                                                  *)
(***************************************************************************)
None == [some |-> FALSE, v |-> <<>>]
Some(x) == [some |-> TRUE, v |-> x]

Min(a, b) == IF a <= b THEN a ELSE b
Max(a, b) == IF a >= b THEN a ELSE b

UpperCase == <<"A","B","C","D","E","F","G","H","I","J","K","L","M",
               "N","O","P","Q","R","S","T","U","V","W","X","Y","Z">>
LowerCase == <<"a","b","c","d","e","f","g","h","i","j","k","l","m",
               "n","o","p","q","r","s","t","u","v","w","x","y","z">>

\* str.lower() on one character
LowerChar(c) ==
    IF \E i \in 1..26 : UpperCase[i] = c
    THEN LowerCase[CHOOSE i \in 1..26 : UpperCase[i] = c]
    ELSE c

\* str.lower()
Lower(s) == [i \in 1..Len(s) |-> LowerChar(s[i])]

\* s[i:] with 0-based i
From(s, i) == SubSeq(s, i + 1, Len(s))

\* s.startswith(p)
StartsWith(s, p) == Len(p) <= Len(s) /\ SubSeq(s, 1, Len(p)) = p

\* s.find(sub): the least 0-based index of an occurrence, -1 if there is none
Find(s, sub) ==
    IF \E i \in 0..(Len(s) - Len(sub)) : StartsWith(From(s, i), sub)
    THEN CHOOSE i \in 0..(Len(s) - Len(sub)) :
            /\ StartsWith(From(s, i), sub)
            /\ \A j \in 0..(i - 1) : ~StartsWith(From(s, j), sub)
    ELSE -1

\* sub in s
Contains(s, sub) == Find(s, sub) >= 0

\* s.split(sep)[0]
SplitFirst(s, sep) ==
    IF Find(s, sep) < 0 THEN s ELSE SubSeq(s, 1, Find(s, sep))

\* s.split(sep)[-1]: split scans left to right over non-overlapping
\* occurrences of sep; the last piece follows the last occurrence consumed
RECURSIVE SplitLast(_, _)
SplitLast(s, sep) ==
    IF Find(s, sep) < 0 THEN s
    ELSE SplitLast(From(s, Find(s, sep) + Len(sep)), sep)

\* the characters str.strip() removes
Whitespace == {" ", "\t", "\n"}

RECURSIVE LStrip(_, _)
LStrip(s, chars) ==
    IF s # <<>> /\ Head(s) \in chars THEN LStrip(Tail(s), chars) ELSE s

RECURSIVE RStrip(_, _)
RStrip(s, chars) ==
    IF s # <<>> /\ s[Len(s)] \in chars
    THEN RStrip(SubSeq(s, 1, Len(s) - 1), chars) ELSE s

\* s.strip() and s.strip(chars)
Strip(s, chars) == RStrip(LStrip(s, chars), chars)

\* lst[:n] for any integer n (a negative n counts from the end)
SliceTo(lst, n) ==
    IF n >= 0 THEN SubSeq(lst, 1, Min(n, Len(lst)))
    ELSE SubSeq(lst, 1, Max(Len(lst) + n, 0))

(***************************************************************************)
(* datetime values: wall is the wall-clock reading in hours; aware says    *)
(* whether the value carries a zone, off is then its UTC offset in hours   *)
(* (0 for a naive value).                                                  *)
(***************************************************************************)
NaiveTz == [aware |-> FALSE, off |-> 0]
Tz(off) == [aware |-> TRUE, off |-> off]

\* posted_at.tzinfo
tzinfo(d) == [aware |-> d.aware, off |-> d.off]

\* datetime.now(tz); datetime.now() is datetime.now(None), the local wall clock
DatetimeNow(tz) ==
    IF tz.aware THEN [wall |-> NowUTC + tz.off, aware |-> TRUE, off |-> tz.off]
    ELSE [wall |-> NowUTC + LocalOffset, aware |-> FALSE, off |-> 0]

\* d - timedelta(hours=h)
MinusHours(d, h) == [d EXCEPT !.wall = d.wall - h]

\* variant: the comparison admits equality
DatetimeGt_OrEqual(a, b) ==
    IF a.aware THEN a.wall - a.off >= b.wall - b.off
    ELSE a.wall >= b.wall

\* a > b for two datetimes of the same awareness: aware values compare as
\* instants, naive values by wall clock
DatetimeGt(a, b) ==
    IF a.aware THEN a.wall - a.off > b.wall - b.off
    ELSE a.wall > b.wall

\* is_fresh, with the window as a parameter
is_fresh_within(posted_at, hours) ==
    LET cutoff == MinusHours(DatetimeNow(tzinfo(posted_at)), hours)
    IN  DatetimeGt(posted_at, cutoff)

is_fresh(posted_at) == is_fresh_within(posted_at, MAX_HOURS_OLD)

\* posted_at.isoformat(): the wall-clock reading followed by the zone
\* suffix, which is absent for a naive value
isoformat(d) == [wall |-> d.wall, suffix |-> IF d.aware THEN <<d.off>> ELSE <<>>]

\* variant: the text is compared as written
matches_negative_filters_CaseSensitive(text) ==
    \E k \in 1..Len(NEGATIVE_FILTERS) :
        Contains(text, Lower(NEGATIVE_FILTERS[k]))

\* matches_negative_filters
matches_negative_filters(text) ==
    LET text_lower == Lower(text)
    IN  \E k \in 1..Len(NEGATIVE_FILTERS) :
            Contains(text_lower, Lower(NEGATIVE_FILTERS[k]))

(***************************************************************************)
(* What the page driver answers for one selector on one element.           *)
(*   k = "raise"   : query_selector or the read raises                     *)
(*   k = "missing" : query_selector returns None                           *)
(*   k = "null"    : the element exists, get_attribute returns None        *)
(*   k = "value"   : the element exists and the read returns v             *)
(* A datetime attribute value v is [iso |-> whether fromisoformat accepts  *)
(* it, wall, zone, off], zone being "Z", "none" (no zone written) or       *)
(* "offset" (the numeric offset off written); an empty or unparsable       *)
(* string has iso = FALSE.                                                 *)
(***************************************************************************)
Raise == [k |-> "raise", v |-> <<>>]
Missing == [k |-> "missing", v |-> <<>>]
Null == [k |-> "null", v |-> <<>>]
Value(x) == [k |-> "value", v |-> x]

\* datetime.fromisoformat(time_str.replace('Z', '+00:00')) on an accepted
\* string
fromisoformat(time_str) ==
    IF time_str.zone = "Z" THEN [wall |-> time_str.wall, aware |-> TRUE, off |-> 0]
    ELSE IF time_str.zone = "none" THEN [wall |-> time_str.wall, aware |-> FALSE, off |-> 0]
    ELSE [wall |-> time_str.wall, aware |-> TRUE, off |-> time_str.off]

(***************************************************************************)
(* RobustExtractor.  tweet is the DOM of one container element: for each   *)
(* field the answers of the selectors of its chain, in chain order.        *)
(***************************************************************************)
\* variant: the try encloses the loop, a selector that raises ends the chain
RECURSIVE extract_text_from_RaiseEnds(_, _)
extract_text_from_RaiseEnds(tweet, i) ==
    IF i > TWEET_TEXT THEN None
    ELSE LET o == tweet.text[i]
         IN  IF o.k = "raise" THEN None
             ELSE IF o.k = "value" /\ o.v # <<>>
                     /\ Len(Strip(o.v, Whitespace)) > 5
             THEN Some(Strip(o.v, Whitespace))
             ELSE extract_text_from_RaiseEnds(tweet, i + 1)

\* extract_text from selector number i of TWEET_TEXT on
RECURSIVE extract_text_from(_, _)
extract_text_from(tweet, i) ==
    IF i > TWEET_TEXT THEN None
    ELSE LET o == tweet.text[i]
         IN  IF o.k = "value" /\ o.v # <<>> /\ Len(Strip(o.v, Whitespace)) > 5
             THEN Some(Strip(o.v, Whitespace))
             ELSE extract_text_from(tweet, i + 1)

extract_text(tweet) == extract_text_from(tweet, 1)

\* extract_author from selector number i of AUTHOR on
RECURSIVE extract_author_from(_, _)
extract_author_from(tweet, i) ==
    IF i > AUTHOR THEN <<"U","n","k","n","o","w","n">>
    ELSE LET o == tweet.author[i]
         IN  IF o.k = "value" /\ o.v # <<>>
             THEN SplitFirst(Strip(o.v, {"/"}), <<"/">>)
             ELSE extract_author_from(tweet, i + 1)

extract_author(tweet) == extract_author_from(tweet, 1)

\* extract_url: the pair (source_url, tweet_id), (None, None) when nothing
\* is extracted
extract_url(tweet) ==
    LET o == tweet.link
    IN  IF o.k = "value" /\ o.v # <<>> /\ Contains(o.v, StatusMarker)
        THEN [source_url |-> Some(Origin \o o.v),
              tweet_id |-> Some(SplitFirst(SplitFirst(SplitLast(o.v, StatusMarker),
                                                      <<"?">>), <<"/">>))]
        ELSE [source_url |-> None, tweet_id |-> None]

\* variant: the default is the start of the epoch
RECURSIVE extract_time_from_DefaultEpoch(_, _)
extract_time_from_DefaultEpoch(tweet, i) ==
    IF i > TIMESTAMP THEN [wall |-> 0, aware |-> FALSE, off |-> 0]
    ELSE LET o == tweet.time[i]
         IN  IF o.k = "value" /\ o.v.iso
             THEN fromisoformat(o.v)
             ELSE extract_time_from_DefaultEpoch(tweet, i + 1)

\* extract_time from selector number i of TIMESTAMP on
RECURSIVE extract_time_from(_, _)
extract_time_from(tweet, i) ==
    IF i > TIMESTAMP THEN DatetimeNow(NaiveTz)
    ELSE LET o == tweet.time[i]
         IN  IF o.k = "value" /\ o.v.iso
             THEN fromisoformat(o.v)
             ELSE extract_time_from(tweet, i + 1)

extract_time(tweet) == extract_time_from(tweet, 1)

\* Python truth of an Optional[str]: None and '' are false
Truthy(opt) == opt.some /\ opt.v # <<>>

(***************************************************************************)
(* The per-element block of scrape_search (the body of the inner try).     *)
(* tweet is an element handle together with what the calls of the block    *)
(* return for it (Extract); fault names the statement of the block that    *)
(* raises when control reaches it ("none": nothing raises).  The result is *)
(* the local list afterwards and whether the inner except clause was       *)
(* entered.                                                                *)
(***************************************************************************)
\* the values the extractor calls and the two predicates of the block
\* return for the DOM dom
Extract(dom) ==
    [text      |-> extract_text(dom),
     author    |-> extract_author(dom),
     url       |-> extract_url(dom),
     posted_at |-> extract_time(dom),
     fresh     |-> is_fresh(extract_time(dom)),
     promo     |-> extract_text(dom).some
                   /\ matches_negative_filters(extract_text(dom).v)]

BlockStatements ==
    {"extract_text", "extract_author", "extract_url", "extract_time",
     "is_fresh", "matches_negative_filters", "log_info"}

\* text[:100] + ('...' if len(text) > 100 else '')
Title(text) ==
    SliceTo(text, 100) \o (IF Len(text) > 100 THEN <<".", ".", ".">> ELSE <<>>)

\* the dict appended to results
CandidateRecord(text, author, url, posted_at) ==
    [source    |-> "x",
     sourceId  |-> url.tweet_id.v,
     sourceUrl |-> url.source_url.v,
     title     |-> Title(text),
     content   |-> text,
     author    |-> author,
     subreddit |-> "None",
     postedAt  |-> isoformat(posted_at)]

\* variant: the test "if not is_fresh(posted_at)" is missing
process_tweet_NoFreshness(tweet, fault, results) ==
    LET text      == tweet.extracted.text
        author    == tweet.extracted.author
        url       == tweet.extracted.url
        posted_at == tweet.extracted.posted_at
        skipped   == [results |-> results, raised |-> FALSE]
        caught    == [results |-> results, raised |-> TRUE]
    IN  IF fault = "extract_text" THEN caught
        ELSE IF ~Truthy(text) THEN skipped
        ELSE IF fault \in {"extract_author", "extract_url"} THEN caught
        ELSE IF ~Truthy(url.source_url) \/ ~Truthy(url.tweet_id) THEN skipped
        ELSE IF fault \in {"extract_time", "is_fresh"} THEN caught
        ELSE IF fault = "matches_negative_filters" THEN caught
        ELSE IF tweet.extracted.promo THEN skipped
        ELSE [results |-> Append(results,
                                 CandidateRecord(text.v, author, url, posted_at)),
              raised  |-> fault = "log_info"]

\* variant: the test "if not source_url or not tweet_id" is missing
process_tweet_NoIdTest(tweet, fault, results) ==
    LET text      == tweet.extracted.text
        author    == tweet.extracted.author
        url       == tweet.extracted.url
        posted_at == tweet.extracted.posted_at
        skipped   == [results |-> results, raised |-> FALSE]
        caught    == [results |-> results, raised |-> TRUE]
    IN  IF fault = "extract_text" THEN caught
        ELSE IF ~Truthy(text) THEN skipped
        ELSE IF fault \in {"extract_author", "extract_url"} THEN caught
        ELSE IF fault \in {"extract_time", "is_fresh"} THEN caught
        ELSE IF ~tweet.extracted.fresh THEN skipped
        ELSE IF fault = "matches_negative_filters" THEN caught
        ELSE IF tweet.extracted.promo THEN skipped
        ELSE [results |-> Append(results,
                                 CandidateRecord(text.v, author, url, posted_at)),
              raised  |-> fault = "log_info"]

process_tweet(tweet, fault, results) ==
    LET text      == tweet.extracted.text
        author    == tweet.extracted.author
        url       == tweet.extracted.url
        posted_at == tweet.extracted.posted_at
        skipped   == [results |-> results, raised |-> FALSE]
        caught    == [results |-> results, raised |-> TRUE]
    IN  IF fault = "extract_text" THEN caught
        ELSE IF ~Truthy(text) THEN skipped
        ELSE IF fault \in {"extract_author", "extract_url"} THEN caught
        ELSE IF ~Truthy(url.source_url) \/ ~Truthy(url.tweet_id) THEN skipped
        ELSE IF fault \in {"extract_time", "is_fresh"} THEN caught
        ELSE IF ~tweet.extracted.fresh THEN skipped
        ELSE IF fault = "matches_negative_filters" THEN caught
        ELSE IF tweet.extracted.promo THEN skipped
        ELSE [results |-> Append(results,
                                 CandidateRecord(text.v, author, url, posted_at)),
              raised  |-> fault = "log_info"]

(***************************************************************************)
(* The deduplication loop of main.                                         *)
(***************************************************************************)
\* variant: of the records sharing an identifier the last one is kept
RECURSIVE Deduplicate_KeepLast(_, _, _)
Deduplicate_KeepLast(all, seen, unique) ==
    IF all = <<>> THEN unique
    ELSE LET r == Head(all)
         IN  IF \E k \in 2..Len(all) : all[k].sourceId = r.sourceId
             THEN Deduplicate_KeepLast(Tail(all), seen, unique)
             ELSE Deduplicate_KeepLast(Tail(all), seen, Append(unique, r))

\* variant: the membership test against seen is dropped
RECURSIVE Deduplicate_NoSeenTest(_, _, _)
Deduplicate_NoSeenTest(all, seen, unique) ==
    IF all = <<>> THEN unique
    ELSE LET r == Head(all)
         IN  IF r.sourceId # <<>>
             THEN Deduplicate_NoSeenTest(Tail(all), seen \cup {r.sourceId},
                                         Append(unique, r))
             ELSE Deduplicate_NoSeenTest(Tail(all), seen, unique)

RECURSIVE Deduplicate(_, _, _)
Deduplicate(all, seen, unique) ==
    IF all = <<>> THEN unique
    ELSE LET r == Head(all)
         IN  IF r.sourceId # <<>> /\ r.sourceId \notin seen
             THEN Deduplicate(Tail(all), seen \cup {r.sourceId}, Append(unique, r))
             ELSE Deduplicate(Tail(all), seen, unique)

(***************************************************************************)
(* load_cookies_from_file.  A cookies file is [kind, names]: kind is       *)
(* "missing" (no such file), "invalid_json", "not_object" (valid JSON that *)
(* is not an object) or "object"; names are the names of the entries of    *)
(* its 'cookies' list.  The result is the exception raised, or "ok".       *)
(***************************************************************************)
\* variant: the test for the ct0 cookie is missing
load_cookies_from_file_NoCt0Test(file) ==
    IF file.kind = "missing" THEN "FileNotFoundError"
    ELSE IF file.kind = "invalid_json" THEN "JSONDecodeError"
    ELSE IF file.kind = "not_object" THEN "AttributeError"
    ELSE IF file.names = {} THEN "ValueError"
    ELSE IF "auth_token" \notin file.names THEN "ValueError"
    ELSE "ok"

load_cookies_from_file(file) ==
    IF file.kind = "missing" THEN "FileNotFoundError"
    ELSE IF file.kind = "invalid_json" THEN "JSONDecodeError"
    ELSE IF file.kind = "not_object" THEN "AttributeError"
    ELSE IF file.names = {} THEN "ValueError"
    ELSE IF "auth_token" \notin file.names THEN "ValueError"
    ELSE IF "ct0" \notin file.names THEN "ValueError"
    ELSE "ok"

(***************************************************************************)
(* The DOMs a container element is drawn from.                             *)
(***************************************************************************)
TextGood == <<" ","N","e","e","d"," ","a"," ","d","e","v"," ">>
TextShort == <<" "," ","h","i"," "," ">>
TextPromo == <<"H","i","r","e"," ","M","e"," ","n","o","w">>

HrefPost1 == <<"/","a","/","s","t","a","t","u","s","/","1">>
HrefPost1Query == <<"/","a","/","s","t","a","t","u","s","/","1","?","s","=","2">>
HrefPost2Photo == <<"/","b","/","s","t","a","t","u","s","/","2","/","p","h","o","t","o">>
HrefNoId == <<"/","a","/","s","t","a","t","u","s","/">>
HrefNoMarker == <<"/","a","/","l","i","k","e","s">>

TimeStr(age, zone, off) ==
    [iso |-> TRUE, wall |-> NowUTC + off - age, zone |-> zone, off |-> off]
TimeGarbage == [iso |-> FALSE, wall |-> 0, zone |-> "none", off |-> 0]

TimeFresh == <<Value(TimeStr(1, "Z", 0)), Missing>>
AuthorA == <<Value(<<"/","a">>), Missing>>

Dom(text, author, link, time) ==
    [text |-> text, author |-> author, link |-> link, time |-> time]

Doms ==
    { \* accepted: post 1
      Dom(<<Value(TextGood), Missing>>, AuthorA, Value(HrefPost1), TimeFresh),
      \* accepted: post 1 again, seen through fallback selectors, with other
      \* URL, author and timestamp
      Dom(<<Raise, Value(TextGood)>>, <<Missing, Null>>, Value(HrefPost1Query),
          <<Value(TimeGarbage), Raise>>),
      \* accepted: post 2
      Dom(<<Missing, Value(TextGood)>>, <<Null, Value(<<"/","b","/">>)>>,
          Value(HrefPost2Photo), <<Missing, Value(TimeStr(23, "offset", -5))>>),
      \* no identifier after the marker
      Dom(<<Value(TextGood), Missing>>, AuthorA, Value(HrefNoId), TimeFresh),
      \* no status link at all
      Dom(<<Value(TextGood), Missing>>, AuthorA, Missing, TimeFresh),
      \* the link lookup raises
      Dom(<<Value(TextGood), Missing>>, AuthorA, Raise, TimeFresh),
      \* a link without the marker
      Dom(<<Value(TextGood), Missing>>, AuthorA, Value(HrefNoMarker), TimeFresh),
      \* 25 hours old
      Dom(<<Value(TextGood), Missing>>, AuthorA, Value(HrefPost1),
          <<Value(TimeStr(25, "Z", 0)), Missing>>),
      \* exactly 24 hours old, no zone written
      Dom(<<Value(TextGood), Missing>>, AuthorA, Value(HrefPost2Photo),
          <<Value(TimeStr(24, "none", 0)), Missing>>),
      \* self-promotion
      Dom(<<Value(TextPromo), Missing>>, AuthorA, Value(HrefPost1), TimeFresh),
      \* text too short in both selectors
      Dom(<<Value(TextShort), Value(<<>>)>>, AuthorA, Value(HrefPost1), TimeFresh),
      \* no text element
      Dom(<<Missing, Raise>>, AuthorA, Value(HrefPost2Photo), TimeFresh) }

\* the elements a page holds: a DOM with what the block's calls return for it
Elements == {[dom |-> d, extracted |-> Extract(d)] : d \in Doms}

\* the cookies files a run is started with
CookieFiles ==
    {[kind |-> "missing", names |-> {}],
     [kind |-> "invalid_json", names |-> {}],
     [kind |-> "not_object", names |-> {}]}
    \cup {[kind |-> "object", names |-> n] : n \in SUBSET {"auth_token", "ct0"}}

\* the values TWITTER_MAX_RESULTS supplies in the runs followed as a whole
MaxResultsEnv == {1, 3}

\* the values TWITTER_MAX_RESULTS supplies to a single query: int() accepts
\* every integer literal
MaxResultsAny == MaxResultsEnv \cup {-1, 0}

(***************************************************************************)
(* State.                                                                  *)
(***************************************************************************)
VARIABLES
    TWITTER_ENABLED,      \* the module-level flag
    TWITTER_COOKIES_PATH, \* "" when the variable is unset
    cookie_file,          \* the file TWITTER_COOKIES_PATH names
    MAX_RESULTS,          \* the per-query maximum
    mainpc,               \* position of main
    browser,              \* "none", "launched" or "closed"
    idx,                  \* number of the query main is at (0 before the loop)
    qstate,               \* position of scrape_search for each query
    tweets,               \* the handles scrape_search selected
    tweet_idx,            \* number of handles of tweets[:MAX_RESULTS] processed
    results,              \* the local list of the running scrape_search
    returned,             \* the list each finished scrape_search returned
    raised_at,            \* for each query the position whose exception
                          \* reached the outer except clause, else "none"
    all_results,          \* the aggregate of main
    stdout,               \* the JSON documents printed, in order
    exit_status,          \* -1 while the process runs, then its status
    trace,                \* history of the running query, kept by SpecQuery:
                          \* per processed element what the page held for
                          \* it, the statement that raised and whether the
                          \* inner except clause was entered
    observed,             \* history: the call under observation, as
                          \* [fn, arg, out]; fn = "none" when there is none
    scroll                \* the frame of human_like_scroll, followed
                          \* statement by statement by SpecQueryLive

vars == <<TWITTER_ENABLED, TWITTER_COOKIES_PATH, cookie_file, MAX_RESULTS,
          mainpc, browser, idx, qstate, tweets, tweet_idx, results, returned,
          raised_at, all_results, stdout, exit_status, trace, observed,
          scroll>>

\* no call is under observation
NoCall == [fn |-> "none"]

\* human_like_scroll is not running
NoScroll == [pc |-> "idle", i |-> 0, start |-> 0, distance |-> 0, current |-> 0]

aux == <<observed, scroll>>
config == <<TWITTER_ENABLED, TWITTER_COOKIES_PATH, cookie_file, MAX_RESULTS>>
query == <<qstate, tweets, tweet_idx, results, returned, raised_at, trace>>

Queries == 1..NumQueries

\* positions of scrape_search at which the function has returned
Terminal == {"done", "failed"}

\* what the page holds for an element: the first requirement of a record
\* that the element lacks, "pass" when it lacks none
Classify(tweet) ==
    IF ~Truthy(tweet.extracted.text) THEN "no_content"
    ELSE IF ~Truthy(tweet.extracted.url.tweet_id)
            \/ ~Truthy(tweet.extracted.url.source_url) THEN "no_id"
    ELSE IF ~tweet.extracted.fresh THEN "stale"
    ELSE IF tweet.extracted.promo THEN "promo"
    ELSE "pass"

Init ==
    /\ TWITTER_ENABLED \in BOOLEAN
    /\ TWITTER_COOKIES_PATH \in {"", "cookies.json"}
    /\ cookie_file \in CookieFiles
    /\ MAX_RESULTS \in MaxResultsEnv
    /\ mainpc = "config"
    /\ browser = "none"
    /\ idx = 0
    /\ qstate = [q \in Queries |-> "idle"]
    /\ tweets = <<>>
    /\ tweet_idx = 0
    /\ results = <<>>
    /\ returned = [q \in Queries |-> <<>>]
    /\ raised_at = [q \in Queries |-> "none"]
    /\ all_results = <<>>
    /\ stdout = <<>>
    /\ exit_status = -1
    /\ trace = <<>>
    /\ observed = NoCall
    /\ scroll = NoScroll

\* print(json.dumps(doc)); sys.exit(status)
Exit(doc, status) ==
    /\ stdout' = Append(stdout, doc)
    /\ exit_status' = status
    /\ mainpc' = "exited"

(***************************************************************************)
(* main, up to the launch of the browser.                                  *)
(***************************************************************************)
CheckConfig ==
    /\ mainpc = "config"
    /\ IF ~TWITTER_ENABLED THEN Exit(<<>>, 0)
       ELSE IF TWITTER_COOKIES_PATH = "" THEN Exit(<<>>, 1)
       ELSE IF load_cookies_from_file(cookie_file) = "ok"
            THEN /\ mainpc' = "launch"
                 /\ UNCHANGED <<stdout, exit_status>>
       \* FileNotFoundError, JSONDecodeError and ValueError are handled in
       \* main, any other exception by the handler under __main__
       ELSE Exit(<<>>, 1)
    /\ UNCHANGED <<config, aux, browser, idx, query, all_results>>

(***************************************************************************)
(* main inside the try: browser set-up.                                    *)
(***************************************************************************)
\* the statements of main's try block that call the browser driver and are
\* not inside scrape_search
DriverSteps == {"launch", "context", "cookies", "stealth", "page", "close"}

Launch ==
    /\ mainpc = "launch"
    /\ mainpc' = "context"
    /\ browser' = "launched"
    /\ UNCHANGED <<config, aux, idx, query, all_results, stdout, exit_status>>

NewContext ==
    /\ mainpc = "context"
    /\ mainpc' = "cookies"
    /\ UNCHANGED <<config, aux, browser, idx, query, all_results, stdout, exit_status>>

AddCookies ==
    /\ mainpc = "cookies"
    /\ mainpc' = "stealth"
    /\ UNCHANGED <<config, aux, browser, idx, query, all_results, stdout, exit_status>>

ApplyStealth ==
    /\ mainpc = "stealth"
    /\ mainpc' = "page"
    /\ UNCHANGED <<config, aux, browser, idx, query, all_results, stdout, exit_status>>

NewPage ==
    /\ mainpc = "page"
    /\ mainpc' = "loop"
    /\ all_results' = <<>>
    /\ UNCHANGED <<config, aux, browser, idx, query, stdout, exit_status>>

\* variant: the handler prints what was collected so far
FatalError_PrintsCollected ==
    /\ mainpc \in DriverSteps
    /\ Exit(Deduplicate(all_results, {}, <<>>), 1)
    /\ UNCHANGED <<config, aux, browser, idx, query, all_results>>

\* except Exception in main: a driver call of the try block raises
FatalError ==
    /\ mainpc \in DriverSteps
    /\ Exit(<<>>, 1)
    /\ UNCHANGED <<config, aux, browser, idx, query, all_results>>

(***************************************************************************)
(* The query loop of main.                                                 *)
(***************************************************************************)
\* variant: scrape_search is started without being awaited
AtLoopHead_NoAwait == mainpc \in {"loop", "await"}

\* main is at the head of its for loop, not suspended in a call
AtLoopHead == mainpc = "loop"

\* tweets = await scrape_search(page, query): the call; scrape_search
\* starts with results = []
StartQuery ==
    /\ AtLoopHead
    /\ idx < NumQueries
    /\ idx' = idx + 1
    /\ mainpc' = "await"
    /\ qstate' = [qstate EXCEPT ![idx + 1] = "delay"]
    /\ results' = <<>>
    /\ UNCHANGED <<config, aux, browser, tweets, tweet_idx, returned, raised_at, trace,
                   all_results, stdout, exit_status>>

\* variant: the list returned replaces the aggregate
Collect_Assigns ==
    /\ mainpc = "await"
    /\ qstate[idx] \in Terminal
    /\ all_results' = returned[idx]
    /\ mainpc' = IF idx < NumQueries THEN "pause" ELSE "close"
    /\ results' = <<>>
    /\ tweets' = <<>>
    /\ tweet_idx' = 0
    /\ trace' = <<>>
    /\ UNCHANGED <<config, aux, browser, idx, qstate, returned, raised_at, stdout,
                   exit_status>>

\* all_results.extend(tweets), then the loop goes on to the pause between
\* queries or ends; the frame of the scrape_search that returned is gone
Collect ==
    /\ mainpc = "await"
    /\ qstate[idx] \in Terminal
    /\ all_results' = all_results \o returned[idx]
    /\ mainpc' = IF idx < NumQueries THEN "pause" ELSE "close"
    /\ results' = <<>>
    /\ tweets' = <<>>
    /\ tweet_idx' = 0
    /\ trace' = <<>>
    /\ UNCHANGED <<config, aux, browser, idx, qstate, returned, raised_at, stdout,
                   exit_status>>

\* await HumanBehavior.random_delay(3000, 6000)
InterQueryDelay ==
    /\ mainpc = "pause"
    /\ mainpc' = "loop"
    /\ UNCHANGED <<config, aux, browser, idx, query, all_results, stdout, exit_status>>

\* await browser.close()
CloseBrowser ==
    /\ mainpc = "close"
    /\ mainpc' = "dedup"
    /\ browser' = "closed"
    /\ UNCHANGED <<config, aux, idx, query, all_results, stdout, exit_status>>

\* the deduplication loop, print(json.dumps(unique_results)), sys.exit(0)
Emit ==
    /\ mainpc = "dedup"
    /\ Exit(Deduplicate(all_results, {}, <<>>), 0)
    /\ UNCHANGED <<config, aux, browser, idx, query, all_results>>

(***************************************************************************)
(* scrape_search, for the query main is suspended in.                      *)
(***************************************************************************)
Running(stage) == mainpc = "await" /\ qstate[idx] = stage

GoTo(stage) == qstate' = [qstate EXCEPT ![idx] = stage]

\* return results
Return(stage) ==
    /\ GoTo(stage)
    /\ returned' = [returned EXCEPT ![idx] = results]

\* await HumanBehavior.random_delay(1000, 2000)
ScrapeDelay ==
    /\ Running("delay")
    /\ GoTo("goto")
    /\ UNCHANGED <<config, aux, mainpc, browser, idx, tweets, tweet_idx, results,
                   returned, raised_at, trace, all_results, stdout, exit_status>>

\* await page.goto(...)
Goto ==
    /\ Running("goto")
    /\ GoTo("wait")
    /\ UNCHANGED <<config, aux, mainpc, browser, idx, tweets, tweet_idx, results,
                   returned, raised_at, trace, all_results, stdout, exit_status>>

\* variant: the wait sits directly in the outer try, without a try of its own
WaitForSelectorStep_TimeoutFails(traced) ==
    /\ Running("wait")
    /\ \E timed_out \in BOOLEAN :
          /\ observed' = IF traced
                          THEN [fn  |-> "wait_for_selector",
                                arg |-> idx,
                                out |-> IF timed_out THEN "timeout" ELSE "found"]
                          ELSE observed
          /\ IF timed_out
             THEN /\ Return("failed")
                  /\ raised_at' = [raised_at EXCEPT ![idx] = "wait"]
             ELSE GoTo("scroll") /\ UNCHANGED <<returned, raised_at>>
    /\ UNCHANGED <<config, scroll, mainpc, browser, idx, tweets, tweet_idx,
                   results, trace, all_results, stdout, exit_status>>

\* await page.wait_for_selector(...): it returns, or it raises and the bare
\* except swallows the exception; traced says whether the history keeps
\* which of the two happened
WaitForSelectorStep(traced) ==
    /\ Running("wait")
    /\ \E timed_out \in BOOLEAN :
          /\ observed' = IF traced
                          THEN [fn  |-> "wait_for_selector",
                                arg |-> idx,
                                out |-> IF timed_out THEN "timeout" ELSE "found"]
                          ELSE observed
          /\ GoTo("scroll")
    /\ UNCHANGED <<config, scroll, mainpc, browser, idx, tweets, tweet_idx,
                   results, returned, raised_at, trace, all_results, stdout,
                   exit_status>>

\* in a whole run
WaitForSelector == WaitForSelectorStep(FALSE)

\* in a single query
WaitForSelectorTraced == WaitForSelectorStep(TRUE)

\* await HumanBehavior.human_like_scroll(page, num_scrolls=2)
Scroll ==
    /\ Running("scroll")
    /\ GoTo("locate")
    /\ UNCHANGED <<config, aux, mainpc, browser, idx, tweets, tweet_idx, results,
                   returned, raised_at, trace, all_results, stdout, exit_status>>

\* variant: the loop has no break, the last selector that matches wins
RECURSIVE find_tweets_LastMatch(_, _)
find_tweets_LastMatch(found, s) ==
    IF s > TWEET_CONTAINERS THEN <<>>
    ELSE LET later == find_tweets_LastMatch(found, s + 1)
         IN  IF later # <<>> THEN later
             ELSE IF found[s] > 0 THEN [k \in 1..found[s] |-> k]
             ELSE <<>>

\* the handles the container chain selects: found[s] is what
\* query_selector_all answers for selector s, -1 when it raises, else the
\* number of matches; a handle is its position among the matches
RECURSIVE find_tweets(_, _)
find_tweets(found, s) ==
    IF s > TWEET_CONTAINERS THEN <<>>
    ELSE IF found[s] > 0 THEN [k \in 1..found[s] |-> k]
    ELSE find_tweets(found, s + 1)

\* the container loop and the test "if not tweets"; traced says whether the
\* history keeps what the selectors answered
LocateStep(traced) ==
    /\ Running("locate")
    /\ \E found \in [1..TWEET_CONTAINERS -> -1..MaxTweets] :
          /\ tweets' = find_tweets(found, 1)
          /\ observed' = IF traced
                          THEN [fn  |-> "query_selector_all",
                                arg |-> idx,
                                out |-> found]
                          ELSE observed
          /\ IF tweets' = <<>>
             THEN Return("done")
             ELSE GoTo("extract") /\ UNCHANGED returned
    /\ UNCHANGED <<config, scroll, mainpc, browser, idx, tweet_idx, results,
                   raised_at, trace, all_results, stdout, exit_status>>

\* in a whole run and in a single query
Locate == LocateStep(FALSE)

\* on its own
LocateTraced == LocateStep(TRUE)

\* one pass of the for loop over tweets[:MAX_RESULTS]: the page holds the
\* element tweet behind the handle, and the statement fault of the block
\* raises, for the statements of faults; traced says whether the history
\* variable is kept
ProcessTweetStep(traced, faults) ==
    /\ Running("extract")
    /\ tweet_idx < Len(SliceTo(tweets, MAX_RESULTS))
    /\ \E tweet \in Elements, fault \in faults \cup {"none"} :
          LET out == process_tweet(tweet, fault, results)
          IN  /\ results' = out.results
              /\ trace' = IF traced
                           THEN Append(trace, [class  |-> Classify(tweet),
                                               fault  |-> fault,
                                               raised |-> out.raised])
                           ELSE trace
    /\ tweet_idx' = tweet_idx + 1
    /\ UNCHANGED <<config, aux, mainpc, browser, idx, qstate, tweets, returned,
                   raised_at, all_results, stdout, exit_status>>

\* in a whole run: an exception in the block leaves results as some element
\* without exception does, so the run is followed without them
ProcessTweet == ProcessTweetStep(FALSE, {})

\* in a single query: every statement of the block may raise
ProcessTweetTraced == ProcessTweetStep(TRUE, BlockStatements)

\* the for loop is exhausted: return results
FinishQuery ==
    /\ Running("extract")
    /\ tweet_idx = Len(SliceTo(tweets, MAX_RESULTS))
    /\ Return("done")
    /\ UNCHANGED <<config, aux, mainpc, browser, idx, tweets, tweet_idx, results,
                   raised_at, trace, all_results, stdout, exit_status>>

\* variant: the for loop has no try of its own
OuterTryStages_NoInnerTry == {"delay", "goto", "scroll", "locate", "extract"}

\* the positions of scrape_search whose statement sits directly in the outer
\* try: an exception raised there reaches the outer except clause
OuterTryStages == {"delay", "goto", "scroll", "locate"}

\* variant: scrape_search has no outer try, the exception reaches main
QueryFailed_Propagates ==
    /\ mainpc = "await"
    /\ qstate[idx] \in OuterTryStages
    /\ raised_at' = [raised_at EXCEPT ![idx] = qstate[idx]]
    /\ GoTo("failed")
    /\ Exit(<<>>, 1)
    /\ UNCHANGED <<config, aux, browser, idx, tweets, tweet_idx, results, returned,
                   trace, all_results>>

\* variant: a failed page.goto is logged like a failed wait, and the query
\* goes on
QueryFailed_Continues ==
    /\ mainpc = "await"
    /\ qstate[idx] \in OuterTryStages
    /\ raised_at' = [raised_at EXCEPT ![idx] = qstate[idx]]
    /\ IF qstate[idx] = "goto"
       THEN GoTo("wait") /\ UNCHANGED returned
       ELSE Return("failed")
    /\ UNCHANGED <<config, aux, mainpc, browser, idx, tweets, tweet_idx, results,
                   trace, all_results, stdout, exit_status>>

\* except Exception of scrape_search, then return results
QueryFailed ==
    /\ mainpc = "await"
    /\ qstate[idx] \in OuterTryStages
    /\ raised_at' = [raised_at EXCEPT ![idx] = qstate[idx]]
    /\ Return("failed")
    /\ UNCHANGED <<config, aux, mainpc, browser, idx, tweets, tweet_idx, results,
                   trace, all_results, stdout, exit_status>>

Next ==
    \/ CheckConfig
    \/ Launch
    \/ NewContext
    \/ AddCookies
    \/ ApplyStealth
    \/ NewPage
    \/ FatalError
    \/ StartQuery
    \/ Collect
    \/ InterQueryDelay
    \/ CloseBrowser
    \/ Emit
    \/ ScrapeDelay
    \/ Goto
    \/ WaitForSelector
    \/ Scroll
    \/ Locate
    \/ ProcessTweet
    \/ FinishQuery
    \/ QueryFailed

Spec == Init /\ [][Next]_vars

(***************************************************************************)
(* The process as the code under __main__ runs it: asyncio.run(main()) may *)
(* be ended by a KeyboardInterrupt at any point of main.                   *)
(***************************************************************************)
\* except KeyboardInterrupt: log_error("Interrupted by user"); sys.exit(1)
Interrupt ==
    /\ mainpc # "exited"
    /\ mainpc' = "exited"
    /\ exit_status' = 1
    /\ UNCHANGED <<config, aux, browser, idx, query, all_results, stdout>>

NextProcess ==
    \/ Next
    \/ Interrupt

SpecProcess == Init /\ [][NextProcess]_vars

(***************************************************************************)
(* One call of scrape_search on its own, from the state in which main has  *)
(* just called it for the first query, with the history of its elements.   *)
(***************************************************************************)
InitQuery ==
    /\ TWITTER_ENABLED = TRUE
    /\ TWITTER_COOKIES_PATH = "cookies.json"
    /\ cookie_file = [kind |-> "object", names |-> {"auth_token", "ct0"}]
    /\ MAX_RESULTS \in MaxResultsAny
    /\ mainpc = "await"
    /\ browser = "launched"
    /\ idx = 1
    /\ qstate = [q \in Queries |-> IF q = 1 THEN "delay" ELSE "idle"]
    /\ tweets = <<>>
    /\ tweet_idx = 0
    /\ results = <<>>
    /\ returned = [q \in Queries |-> <<>>]
    /\ raised_at = [q \in Queries |-> "none"]
    /\ all_results = <<>>
    /\ stdout = <<>>
    /\ exit_status = -1
    /\ trace = <<>>
    /\ observed = NoCall
    /\ scroll = NoScroll

NextQuery ==
    \/ ScrapeDelay
    \/ Goto
    \/ WaitForSelectorTraced
    \/ Scroll
    \/ Locate
    \/ ProcessTweetTraced
    \/ FinishQuery
    \/ QueryFailed

SpecQuery == InitQuery /\ [][NextQuery]_vars

(***************************************************************************)
(* One call of scrape_search with human_like_scroll followed statement by  *)
(* statement.  Every page-driver call returns or raises, so a step that is *)
(* enabled is eventually taken.                                            *)
(***************************************************************************)
\* num_scrolls of the call in scrape_search
NumScrolls == 2

\* random.randint(300, 800) and random.randint(50, 150)
ScrollDistanceMin == 300
ScrollDistanceMax == 800
ScrollStepMin == 50
ScrollStepMax == 150

\* the distances and steps drawn, and what window.pageYOffset answers
Distances == {ScrollDistanceMin, 455, ScrollDistanceMax}
Steps == {ScrollStepMin, 110, ScrollStepMax}
PageOffsets == {0, 1200}

\* the head of the for loop with a burst to go: draw the distance, read the
\* position, set the target (start + distance)
ScrollLoopHead ==
    /\ Running("scroll")
    /\ scroll.pc \in {"idle", "for"}
    /\ scroll.i < NumScrolls
    /\ \E scroll_distance \in Distances, current_position \in PageOffsets :
          scroll' = [pc       |-> "while",
                     i        |-> scroll.i,
                     start    |-> current_position,
                     distance |-> scroll_distance,
                     current  |-> current_position]
    /\ UNCHANGED <<config, observed, mainpc, browser, idx, query, all_results,
                   stdout, exit_status>>

\* variant: the position is advanced by the step, without min
ScrollStep_NoClamp ==
    /\ Running("scroll")
    /\ scroll.pc = "while"
    /\ scroll.current < scroll.start + scroll.distance
    /\ \E step \in Steps :
          scroll' = [scroll EXCEPT !.current = scroll.current + step]
    /\ UNCHANGED <<config, observed, mainpc, browser, idx, query, all_results,
                   stdout, exit_status>>

\* one pass of the while loop
ScrollStep ==
    /\ Running("scroll")
    /\ scroll.pc = "while"
    /\ scroll.current < scroll.start + scroll.distance
    /\ \E step \in Steps :
          scroll' = [scroll EXCEPT
                       !.current = Min(scroll.current + step,
                                       scroll.start + scroll.distance)]
    /\ UNCHANGED <<config, observed, mainpc, browser, idx, query, all_results,
                   stdout, exit_status>>

\* the while loop is left: random_delay(1000, 2500), next pass of the for
\* loop
ScrollPause ==
    /\ Running("scroll")
    /\ scroll.pc = "while"
    /\ ~(scroll.current < scroll.start + scroll.distance)
    /\ scroll' = [scroll EXCEPT !.pc = "for", !.i = scroll.i + 1]
    /\ UNCHANGED <<config, observed, mainpc, browser, idx, query, all_results,
                   stdout, exit_status>>

\* the for loop is exhausted: human_like_scroll returns, its frame is gone
\* but for the number of bursts made
ScrollReturn ==
    /\ Running("scroll")
    /\ scroll.pc \in {"idle", "for"}
    /\ ~(scroll.i < NumScrolls)
    /\ scroll' = [NoScroll EXCEPT !.pc = "returned", !.i = scroll.i]
    /\ GoTo("locate")
    /\ UNCHANGED <<config, observed, mainpc, browser, idx, tweets, tweet_idx,
                   results, returned, raised_at, trace, all_results, stdout,
                   exit_status>>

NextQueryLive ==
    \/ ScrapeDelay
    \/ Goto
    \/ WaitForSelector
    \/ ScrollLoopHead
    \/ ScrollStep
    \/ ScrollPause
    \/ ScrollReturn
    \/ Locate
    \/ ProcessTweet
    \/ FinishQuery
    \/ QueryFailed

SpecQueryLive == InitQuery /\ [][NextQueryLive]_vars /\ WF_vars(NextQueryLive)

(***************************************************************************)
(* The container lookup of scrape_search on its own, from the state in     *)
(* which the first query has scrolled, with the history of what the        *)
(* selectors answered.                                                     *)
(***************************************************************************)
InitLocate ==
    /\ TWITTER_ENABLED = TRUE
    /\ TWITTER_COOKIES_PATH = "cookies.json"
    /\ cookie_file = [kind |-> "object", names |-> {"auth_token", "ct0"}]
    /\ MAX_RESULTS \in MaxResultsEnv
    /\ mainpc = "await"
    /\ browser = "launched"
    /\ idx = 1
    /\ qstate = [q \in Queries |-> IF q = 1 THEN "locate" ELSE "idle"]
    /\ tweets = <<>>
    /\ tweet_idx = 0
    /\ results = <<>>
    /\ returned = [q \in Queries |-> <<>>]
    /\ raised_at = [q \in Queries |-> "none"]
    /\ all_results = <<>>
    /\ stdout = <<>>
    /\ exit_status = -1
    /\ trace = <<>>
    /\ observed = NoCall
    /\ scroll = NoScroll

NextLocate == LocateTraced

SpecLocate == InitLocate /\ [][NextLocate]_vars

(***************************************************************************)
(* Single calls on their own: the per-element block of scrape_search on    *)
(* one element, is_fresh on one timestamp and matches_negative_filters on  *)
(* one text, from the state in which the first query is about to process   *)
(* the only element it selected.  observed holds the call and, once it is  *)
(* done, what it returned.                                                 *)
(***************************************************************************)
\* a text of five characters between white space, and one of six
TextFive == <<" ","h","e","l","l","o"," ">>
TextSix == <<"h","e","l","l","o","!">>

\* what a selector of each chain may answer
TextAnswers ==
    {Raise, Missing, Value(<<>>), Value(TextShort), Value(TextFive),
     Value(TextSix), Value(TextGood), Value(TextPromo)}
AuthorAnswers ==
    {Raise, Missing, Null, Value(<<>>), Value(<<"/","a">>),
     Value(<<"/","b","/","s","t","a","t","u","s","/","2">>)}
TimeAnswers ==
    {Raise, Missing, Null, Value(TimeGarbage), Value(TimeStr(1, "Z", 0)),
     Value(TimeStr(25, "Z", 0)), Value(TimeStr(2, "offset", -5))}

\* the answers that give the extractor of the chain nothing
NoAuthor == {Raise, Missing, Null, Value(<<>>)}
NoTime == {Raise, Missing, Null, Value(TimeGarbage)}

\* the chains of two selectors with answers of S
Chains(S) == {<<a, b>> : a \in S, b \in S}

\* the elements the block is observed on: each chain in turn ranges over
\* all its answers, and the chains of the two optional fields range together
\* over all answers that give nothing
ObservedDoms ==
    {Dom(t, AuthorA, Value(HrefPost1), TimeFresh) : t \in Chains(TextAnswers)}
    \cup {Dom(<<Value(TextGood), Missing>>, a, Value(HrefPost1), TimeFresh) :
             a \in Chains(AuthorAnswers)}
    \cup {Dom(<<Value(TextGood), Missing>>, AuthorA, Value(HrefPost1), t) :
             t \in Chains(TimeAnswers)}
    \cup {Dom(<<Missing, Value(x)>>, a, l, t) :
             x \in {TextGood, TextPromo, TextShort},
             a \in Chains(NoAuthor),
             l \in {Value(HrefPost1), Value(HrefNoId), Missing},
             t \in Chains(NoTime)}

\* a call not yet made
Call(fn, arg) == [fn |-> fn, arg |-> arg, done |-> FALSE, out |-> <<>>]

\* the timestamps is_fresh is observed on: Ages hours before now, written
\* without zone or with one of Offsets
Ages == {-1, 0, 1, 23, 24, 25, 48}
Offsets == {-5, 0, 2}
Timestamps ==
    {[wall |-> NowUTC + off - age, aware |-> TRUE, off |-> off] :
        age \in Ages, off \in Offsets}
    \cup {[wall |-> NowUTC + LocalOffset - age, aware |-> FALSE, off |-> 0] :
             age \in Ages}

\* the texts matches_negative_filters is observed on
TextSpecExample ==
    <<"L","o","o","k","i","n","g"," ","f","o","r"," ","a"," ","d","e","v","e","l","o","p","e","r",","," ","I"," ","a","m"," ","a"," ","d","e","v","e","l","o","p","e","r"," ","m","y","s","e","l","f">>
TextUpper ==
    <<"H","I","R","E"," ","M","E">>
TextTag ==
    <<"[","F","o","r"," ","H","i","r","e","]"," ","R","e","a","c","t"," ","d","e","v">>
TextTwoSpaces ==
    <<"p","l","e","a","s","e"," ","h","i","r","e"," "," ","m","e">>
TextNoApostrophe ==
    <<"I","m"," ","a"," ","d","e","v","e","l","o","p","e","r">>
TextHiring ==
    <<"w","e"," ","a","r","e"," ","h","i","r","i","n","g",","," ","m","e","s","s","a","g","e"," ","m","e">>
TextAlmost ==
    <<"s","e","e"," ","m","y"," ","p","o","r","t","f","o","l","i">>
TextOpen ==
    <<"O","p","e","n"," ","T","o"," ","W","o","r","k">>
FilterTexts ==
    {<<>>, TextGood, TextPromo, TextSpecExample, TextUpper, TextTag,
     TextTwoSpaces, TextNoApostrophe, TextHiring, TextAlmost, TextOpen}

\* the values TWITTER_SEARCH_HOURS supplies: int() accepts every integer
\* literal
Windows == {-1, 0, 1, MAX_HOURS_OLD}

\* the anchor references extract_url is observed on: a reference to a post
\* followed by nothing, a sub-path or a query string
RefBases ==
    {HrefPost1,
     <<"/","b","o","b","/","s","t","a","t","u","s","/","2","2">>,
     <<"/","i","/","w","e","b","/","s","t","a","t","u","s","/","3","3","3">>}
RefSuffixes ==
    {<<>>,
     <<"/">>,
     <<"?">>,
     <<"/","p","h","o","t","o","/","1">>,
     <<"?","s","=","2","0">>,
     <<"?","r","e","f","=","/","s","t","a","t","u","s","/","9">>,
     <<"/","s","t","a","t","u","s","/","x">>}

Calls ==
    {Call("process_tweet", d) : d \in ObservedDoms}
    \cup {Call("extract_url", [base |-> b, suffix |-> x]) :
             b \in RefBases, x \in RefSuffixes}
    \cup {Call("is_fresh", t) : t \in Timestamps}
    \cup {Call("matches_negative_filters", t) : t \in FilterTexts}
    \cup {Call("default_timestamp", [time |-> t, hours |-> h]) :
             t \in Chains(NoTime), h \in Windows}

InitCalls ==
    /\ TWITTER_ENABLED = TRUE
    /\ TWITTER_COOKIES_PATH = "cookies.json"
    /\ cookie_file = [kind |-> "object", names |-> {"auth_token", "ct0"}]
    /\ MAX_RESULTS \in MaxResultsEnv
    /\ mainpc = "await"
    /\ browser = "launched"
    /\ idx = 1
    /\ qstate = [q \in Queries |-> IF q = 1 THEN "extract" ELSE "idle"]
    /\ tweets = <<1>>
    /\ tweet_idx = 0
    /\ results = <<>>
    /\ returned = [q \in Queries |-> <<>>]
    /\ raised_at = [q \in Queries |-> "none"]
    /\ all_results = <<>>
    /\ stdout = <<>>
    /\ exit_status = -1
    /\ trace = <<>>
    /\ observed \in Calls
    /\ scroll = NoScroll

\* the pass of the for loop over the observed element, nothing raising
ProcessObserved ==
    /\ Running("extract")
    /\ tweet_idx < Len(SliceTo(tweets, MAX_RESULTS))
    /\ observed.fn = "process_tweet"
    /\ ~observed.done
    /\ LET tweet == [dom |-> observed.arg, extracted |-> Extract(observed.arg)]
       IN  /\ results' = process_tweet(tweet, "none", results).results
           /\ observed' = [observed EXCEPT !.done = TRUE,
                                           !.out = tweet.extracted]
    /\ tweet_idx' = tweet_idx + 1
    /\ UNCHANGED <<config, scroll, mainpc, browser, idx, qstate, tweets,
                   returned, raised_at, trace, all_results, stdout, exit_status>>

\* is_fresh(posted_at)
CallIsFresh ==
    /\ observed.fn = "is_fresh"
    /\ ~observed.done
    /\ observed' = [observed EXCEPT !.done = TRUE, !.out = is_fresh(observed.arg)]
    /\ UNCHANGED <<config, scroll, mainpc, browser, idx, query, all_results,
                   stdout, exit_status>>

\* matches_negative_filters(text)
CallMatchesNegativeFilters ==
    /\ observed.fn = "matches_negative_filters"
    /\ ~observed.done
    /\ observed' = [observed EXCEPT !.done = TRUE,
                                    !.out = matches_negative_filters(observed.arg)]
    /\ UNCHANGED <<config, scroll, mainpc, browser, idx, query, all_results,
                   stdout, exit_status>>

\* posted_at = await extractor.extract_time(tweet), then is_fresh(posted_at)
\* with the window observed.arg.hours, on an element whose timestamp chain
\* is observed.arg.time
CallDefaultTimestamp ==
    /\ observed.fn = "default_timestamp"
    /\ ~observed.done
    /\ LET posted_at == extract_time([time |-> observed.arg.time])
       IN  observed' =
             [observed EXCEPT
                !.done = TRUE,
                !.out = [posted_at |-> posted_at,
                         fresh |-> is_fresh_within(posted_at, observed.arg.hours)]]
    /\ UNCHANGED <<config, scroll, mainpc, browser, idx, query, all_results,
                   stdout, exit_status>>

\* extract_url on an element whose status link has the observed reference
CallExtractUrl ==
    /\ observed.fn = "extract_url"
    /\ ~observed.done
    /\ observed' =
          [observed EXCEPT
             !.done = TRUE,
             !.out = extract_url([link |-> Value(observed.arg.base
                                                  \o observed.arg.suffix)])]
    /\ UNCHANGED <<config, scroll, mainpc, browser, idx, query, all_results,
                   stdout, exit_status>>

NextCalls ==
    \/ ProcessObserved
    \/ CallExtractUrl
    \/ CallDefaultTimestamp
    \/ CallIsFresh
    \/ CallMatchesNegativeFilters
    \/ FinishQuery

SpecCalls == InitCalls /\ [][NextCalls]_vars

(***************************************************************************)
(* Properties.                                                             *)
(***************************************************************************)
\* the per-query result lists, concatenated in query order up to query q
RECURSIVE ConcatReturned(_)
ConcatReturned(q) ==
    IF q = 0 THEN <<>> ELSE ConcatReturned(q - 1) \o returned[q]

\* the first k records of seq without those whose sourceId occurs earlier
RECURSIVE KeepFirst(_, _)
KeepFirst(seq, k) ==
    IF k = 0 THEN <<>>
    ELSE IF \E j \in 1..(k - 1) : seq[j].sourceId = seq[k].sourceId
         THEN KeepFirst(seq, k - 1)
         ELSE Append(KeepFirst(seq, k - 1), seq[k])

\* main ran every query, closed the browser and left through sys.exit(0)
RunCompleted ==
    mainpc = "exited" /\ browser = "closed" /\ exit_status = 0

\* C1: on a run that completes (every query returned, the browser closed,
\* exit through the final print), the sequence printed is the concatenation
\* of the per-query lists in query order without every record whose sourceId
\* occurred earlier in it: the first of several records sharing an
\* identifier is kept, in first-occurrence order.
C1_FirstOccurrenceKept ==
    RunCompleted =>
        /\ Len(stdout) = 1
        /\ stdout[1] = KeepFirst(ConcatReturned(NumQueries),
                                 Len(ConcatReturned(NumQueries)))

\* a completed run in which a later query returned a record with the
\* identifier of an earlier, different record, and two records were printed
C1_Witness ==
    /\ RunCompleted
    /\ Len(stdout[1]) >= 2
    /\ \E i \in 1..Len(returned[1]), j \in 1..Len(returned[2]) :
          /\ returned[1][i].sourceId = returned[2][j].sourceId
          /\ returned[1][i] # returned[2][j]

\* C2: no two records of a printed sequence have the same sourceId.
C2_UniqueSourceIds ==
    \A k \in 1..Len(stdout) :
        \A i, j \in 1..Len(stdout[k]) :
            i # j => stdout[k][i].sourceId # stdout[k][j].sourceId

\* a completed run whose aggregate held the same identifier several times
\* within one query's list and that printed records
C2_Witness ==
    /\ RunCompleted
    /\ stdout[1] # <<>>
    /\ \E q \in Queries : \E i, j \in 1..Len(returned[q]) :
          i # j /\ returned[q][i].sourceId = returned[q][j].sourceId

\* the identifiers of the records of seq
SourceIds(seq) == {seq[k].sourceId : k \in 1..Len(seq)}

\* C3: when page.goto raises for a query, scrape_search returns the empty
\* list to main without raising; main then still runs every later query, and
\* a completed run prints the records of every query (each identifier
\* returned by a query is printed).
C3_GotoFailureSkipsQueryOnly ==
    /\ [][(mainpc = "await" /\ qstate[idx] = "goto" /\ qstate'[idx] = "failed")
            => /\ returned'[idx] = <<>>
               /\ mainpc' = "await"
               /\ stdout' = stdout
               /\ exit_status' = -1]_vars
    /\ []((mainpc \in {"close", "dedup", "exited"} /\ idx >= 1)
            => \A q \in Queries : qstate[q] \in Terminal)
    /\ [](RunCompleted
            => \A q \in Queries : SourceIds(returned[q]) \subseteq SourceIds(stdout[1]))

\* a completed run whose first query failed in page.goto and whose later
\* query returned records that were printed
C3_Witness ==
    /\ RunCompleted
    /\ raised_at[1] = "goto"
    /\ returned[1] = <<>>
    /\ returned[NumQueries] # <<>>
    /\ stdout[1] # <<>>

IsPrefix(a, b) == Len(a) <= Len(b) /\ SubSeq(b, 1, Len(a)) = a

\* the step is one pass of the for loop over the selected elements
ElementStep == tweet_idx' = tweet_idx + 1

\* the history entry of the element just processed
LastEntry == trace'[Len(trace')]

\* what every pass of the loop keeps, whether or not its block raises: the
\* query goes on, nothing is returned yet, the records accepted before stay
\* as they are and at most one is added
PassKeepsQuery ==
    /\ qstate' = qstate
    /\ returned' = returned
    /\ mainpc' = mainpc
    /\ IsPrefix(results, results')
    /\ Len(results') <= Len(results) + 1

\* a query that ends normally has processed every selected element
AllSelectedProcessed ==
    (qstate[1] = "done" /\ tweets # <<>>)
        => /\ tweet_idx = Len(SliceTo(tweets, MAX_RESULTS))
           /\ Len(trace) = tweet_idx

\* C5 as stated: an exception anywhere in the per-element block leaves the
\* element without a record, the query going on with the other elements.
C5_AnyRaiseContributesNothing ==
    /\ [][(ElementStep /\ LastEntry.raised)
            => (results' = results /\ PassKeepsQuery)]_vars
    /\ []AllSelectedProcessed

\* what the block does instead: an exception raised before the record is
\* appended (by an extractor call, is_fresh or matches_negative_filters)
\* leaves the element without a record; an exception raised by the log call
\* after the append leaves the appended record in place.  In both cases the
\* query is not aborted, the remaining selected elements are processed and
\* the records of other elements are unchanged.
RaiseBeforeAppendContributesNothing ==
    /\ [][(ElementStep /\ LastEntry.raised)
            => /\ PassKeepsQuery
               /\ LastEntry.fault # "log_info" => results' = results
               /\ LastEntry.fault = "log_info"
                    => Len(results') = Len(results) + 1]_vars
    /\ []AllSelectedProcessed

\* a finished query whose first element passed every check but raised in
\* is_fresh, and whose second element was accepted
RaiseBeforeAppendWitness ==
    /\ qstate[1] = "done"
    /\ Len(trace) >= 2
    /\ trace[1] = [class |-> "pass", fault |-> "is_fresh", raised |-> TRUE]
    /\ trace[2].class = "pass" /\ ~trace[2].raised
    /\ Len(returned[1]) = 1

\* how many processed elements the page held as class
CountClass(class) == Cardinality({k \in 1..Len(trace) : trace[k].class = class})

\* C6: an element whose block runs without raising adds exactly one record
\* if content was extracted, identifier and URL are non-empty, the timestamp
\* is fresh and no negative filter matches, and none otherwise; a query of
\* three elements, one without identifier, one too old and one passing,
\* returns exactly one record.
C6_OneRecordIffAllChecksPass ==
    /\ [][(ElementStep /\ ~LastEntry.raised)
            => IF LastEntry.class = "pass"
               THEN Len(results') = Len(results) + 1 /\ IsPrefix(results, results')
               ELSE results' = results]_vars
    /\ []((/\ qstate[1] = "done"
            /\ Len(trace) = 3
            /\ \A k \in 1..3 : ~trace[k].raised
            /\ CountClass("no_id") = 1
            /\ CountClass("stale") = 1
            /\ CountClass("pass") = 1)
           => Len(returned[1]) = 1)

\* the query of three elements: the first without identifier, the second
\* too old, the third passing, none raising, has returned
C6_Witness ==
    /\ qstate[1] = "done"
    /\ Len(trace) = 3
    /\ \A k \in 1..3 : ~trace[k].raised
    /\ trace[1].class = "no_id"
    /\ trace[2].class = "stale"
    /\ trace[3].class = "pass"
    /\ Len(returned[1]) = 1

\* the record has an identifier, a URL and content
Complete(r) == r.sourceId # <<>> /\ r.sourceUrl # <<>> /\ r.content # <<>>

AllComplete(seq) == \A k \in 1..Len(seq) : Complete(seq[k])

\* C7: every record of a list scrape_search builds or returns, of main's
\* aggregate and of a printed sequence has a non-empty sourceId, sourceUrl
\* and content.
C7_RecordsComplete ==
    /\ AllComplete(results)
    /\ AllComplete(all_results)
    /\ \A q \in Queries : AllComplete(returned[q])
    /\ \A k \in 1..Len(stdout) : AllComplete(stdout[k])

\* a completed run that printed the records of two different posts
C7_Witness ==
    /\ RunCompleted
    /\ Cardinality(SourceIds(stdout[1])) = 2

\* the configuration lets main reach the launch of the browser
ConfigUsable ==
    /\ TWITTER_COOKIES_PATH # ""
    /\ cookie_file.kind = "object"
    /\ {"auth_token", "ct0"} \subseteq cookie_file.names

\* main left through its except clause: it passed the configuration checks
\* and exited without having closed the browser
RunFailed ==
    mainpc = "exited" /\ TWITTER_ENABLED /\ ConfigUsable /\ browser # "closed"

\* C8: a failure of a driver call of main (launch, new context, adding
\* cookies, stealth, new page, close) ends the run with the empty sequence
\* as its only output and a non-zero status, whatever was collected before.
C8_RunFailureEmitsEmpty ==
    RunFailed => (stdout = << <<>> >> /\ exit_status > 0)

\* browser.close() failed after every query had run and records had been
\* collected
C8_Witness ==
    /\ RunFailed
    /\ idx = NumQueries
    /\ all_results # <<>>
    /\ stdout = << <<>> >>

\* nothing was done with a browser: none launched, no query started
NoBrowsing ==
    /\ browser = "none"
    /\ idx = 0
    /\ \A q \in Queries : qstate[q] = "idle"
    /\ all_results = <<>>

\* C9: with the fetcher enabled and an unusable configuration (cookies path
\* unset, file missing, not valid JSON, no cookies, auth_token or ct0
\* missing) main ends with the empty sequence and a non-zero status and no
\* browsing is ever attempted; with the fetcher disabled it ends with the
\* empty sequence and status 0, again without browsing.
C9_ConfigFailsFast ==
    /\ (~TWITTER_ENABLED \/ ~ConfigUsable) => NoBrowsing /\ mainpc \in {"config", "exited"}
    /\ (mainpc = "exited" /\ TWITTER_ENABLED /\ ~ConfigUsable)
          => (stdout = << <<>> >> /\ exit_status > 0)
    /\ (mainpc = "exited" /\ ~TWITTER_ENABLED)
          => (stdout = << <<>> >> /\ exit_status = 0)

\* an enabled run whose cookies file has auth_token but no ct0 has exited
C9_Witness ==
    /\ mainpc = "exited"
    /\ TWITTER_ENABLED
    /\ TWITTER_COOKIES_PATH # ""
    /\ cookie_file = [kind |-> "object", names |-> {"auth_token"}]
    /\ exit_status = 1

\* the positions at which a scrape_search call is under way
Active(q) == qstate[q] \notin Terminal \cup {"idle"}

\* C10: queries run one after another: a query has returned before any
\* later query leaves its idle state, and at most one query is under way.
C10_QueriesSequential ==
    /\ \A i, j \in Queries : (i < j /\ qstate[j] # "idle") => qstate[i] \in Terminal
    /\ Cardinality({q \in Queries : Active(q)}) <= 1

\* the second query is extracting on the page after the first has returned
\* its records
C10_Witness ==
    /\ qstate[1] = "done"
    /\ returned[1] # <<>>
    /\ qstate[2] = "extract"

\* the wait for the first container of the running query timed out
WaitTimedOut == observed.fn = "wait_for_selector" /\ observed.out = "timeout"

\* the processed elements that extraction accepts: every check passes and the
\* record is appended
Accepted == {k \in 1..Len(trace) :
               /\ trace[k].class = "pass"
               /\ trace[k].fault \in {"none", "log_info"}}

\* C11: a timeout of the wait for the first post container does not fail the
\* query: the query goes on to scroll and to look up the containers, the
\* wait is never where the query failed, and a query that ends normally after
\* the timeout has processed every selected element and returns one record
\* for every element extraction accepted.
C11_WaitTimeoutIsNotFailure ==
    /\ [][(Running("wait") /\ qstate'[1] # "wait")
            => (qstate'[1] = "scroll" /\ returned' = returned
                /\ raised_at' = raised_at)]_vars
    /\ [](WaitTimedOut
            => /\ raised_at[1] # "wait"
               /\ qstate[1] = "failed" => raised_at[1] \in {"scroll", "locate"}
               /\ AllSelectedProcessed
               /\ qstate[1] = "done"
                     => Len(returned[1]) = Cardinality(Accepted))

\* after a timed-out wait the query has ended normally and returns the two
\* records extraction accepted of three elements
C11_Witness ==
    /\ WaitTimedOut
    /\ qstate[1] = "done"
    /\ Len(trace) = 3
    /\ Cardinality(Accepted) = 2
    /\ Len(returned[1]) = 2

\* the selectors of the container chain that answered a non-empty list
Matching == {s \in 1..TWEET_CONTAINERS : observed.out[s] > 0}

\* the first of them in chain order
FirstMatching == CHOOSE s \in Matching : \A t \in Matching : s <= t

\* C12: the container selectors are tried in chain order and the query uses
\* the matches of the first one that answers a non-empty list, whatever the
\* selectors before it did (answer nothing or raise) and whatever the later
\* ones would answer; when no selector matches, the query ends normally with
\* no element and an empty list, not with an error.
C12_FirstMatchingContainerSelector ==
    observed.fn = "query_selector_all"
        => IF Matching = {}
           THEN /\ tweets = <<>>
                /\ qstate[1] = "done"
                /\ returned[1] = <<>>
                /\ raised_at[1] = "none"
           ELSE /\ Len(tweets) = observed.out[FirstMatching]
                /\ qstate[1] = "extract"

\* the first selector raises, the second answers one element and the third
\* three: the query goes on with the one element of the second
C12_Witness ==
    /\ observed.fn = "query_selector_all"
    /\ observed.out = <<-1, 1, 3>>
    /\ Len(tweets) = 1
    /\ qstate[1] = "extract"

\* the block has run on the observed element
Processed == observed.fn = "process_tweet" /\ observed.done

\* the first of the selectors S of a chain, 0 when there is none
FirstIn(S) ==
    IF S = {} THEN 0 ELSE CHOOSE i \in S : \A j \in S : i <= j

\* the answer of selector i is a content of more than five characters
\* between white space
TextAcceptable(i) ==
    LET o == observed.arg.text[i]
    IN  o.k = "value" /\ Len(Strip(o.v, Whitespace)) > 5

\* the answer of selector i is a non-empty href
AuthorAcceptable(i) ==
    LET o == observed.arg.author[i]
    IN  o.k = "value" /\ Len(o.v) > 0

\* the answer of selector i is a datetime attribute that parses
TimeAcceptable(i) ==
    LET o == observed.arg.time[i]
    IN  o.k = "value" /\ o.v.iso

C14_AtMostMaxResults ==
    /\ tweet_idx <= Max(MAX_RESULTS, 0)
    /\ Len(trace) <= Max(MAX_RESULTS, 0)
    /\ Len(results) <= Max(MAX_RESULTS, 0)

\* what holds instead: the bound is kept by every maximum that is not
\* negative, and a negative maximum -n leaves out the last n elements
SliceBound ==
    /\ MAX_RESULTS >= 0 => tweet_idx <= MAX_RESULTS /\ Len(results) <= MAX_RESULTS
    /\ MAX_RESULTS < 0 => tweet_idx <= Max(Len(tweets) + MAX_RESULTS, 0)

\* with the maximum -1 and three matched elements, two records are returned
SliceBoundWitness ==
    /\ MAX_RESULTS = -1
    /\ Len(tweets) = 3
    /\ qstate[1] = "done"
    /\ Len(returned[1]) = 2

\* C17 as stated: however the process ends (disabled, configuration
\* failure, success, failure during scraping, unhandled exception, user
\* interruption), exactly one JSON sequence has been written to stdout, and
\* the exit status is 0 exactly when that sequence is the result of a
\* completed or disabled run, non-zero when it is the empty failure signal.
C17_OneDocumentOnEveryExit ==
    mainpc = "exited"
        => /\ Len(stdout) = 1
           /\ exit_status = 0 <=> (~TWITTER_ENABLED \/ browser = "closed")
           /\ exit_status # 0 => stdout = << <<>> >>

\* what holds instead: never more than one document, and exactly one with
\* the status as stated on every exit that main or the handler of Exception
\* makes; the handler of KeyboardInterrupt exits with status 1 and nothing
\* printed
ExitsWithoutInterrupt ==
    /\ Len(stdout) <= 1
    /\ (mainpc = "exited" /\ stdout # <<>>)
          => /\ exit_status = 0 => (~TWITTER_ENABLED \/ browser = "closed")
             /\ exit_status # 0 => stdout = << <<>> >>
    /\ (mainpc = "exited" /\ stdout = <<>>) => exit_status = 1

\* the run was interrupted in its second query, with records collected
InterruptedWitness ==
    /\ mainpc = "exited"
    /\ stdout = <<>>
    /\ idx = 2
    /\ all_results # <<>>

\* is_fresh has returned for the observed timestamp
FreshnessKnown == observed.fn = "is_fresh" /\ observed.done

\* the wall-clock reading of now in the zone t is written in, the machine's
\* zone when t carries none
NowIn(t) == NowUTC + (IF t.aware THEN t.off ELSE LocalOffset)

\* C15: is_fresh(t) is true exactly when t is strictly later than now minus
\* the window, both read in t's own zone; with the window of 24 hours it is
\* true for a timestamp 1 hour before now, false for one 25 hours before now
\* and false for one exactly 24 hours before now.
C15_FreshIffStrictlyWithinWindow ==
    FreshnessKnown
        => /\ observed.out <=> observed.arg.wall > NowIn(observed.arg) - MAX_HOURS_OLD
           /\ observed.arg.wall = NowIn(observed.arg) - 1 => observed.out
           /\ observed.arg.wall = NowIn(observed.arg) - 25 => ~observed.out
           /\ observed.arg.wall = NowIn(observed.arg) - 24 => ~observed.out

\* is_fresh has answered false for the timestamp exactly 24 hours before
\* now, written with the offset -5
C15_Witness ==
    /\ FreshnessKnown
    /\ observed.arg = [wall |-> NowUTC - 5 - 24, aware |-> TRUE, off |-> -5]
    /\ observed.out = FALSE

\* f occurs in text at position i, letters compared without regard to case
OccursAt(f, text, i) ==
    /\ i + Len(f) - 1 <= Len(text)
    /\ \A j \in 1..Len(f) : LowerChar(text[i + j - 1]) = LowerChar(f[j])

\* some entry of NEGATIVE_FILTERS is a case-insensitive substring of text
Promotes(text) ==
    \E k \in 1..Len(NEGATIVE_FILTERS), i \in 1..Len(text) :
        OccursAt(NEGATIVE_FILTERS[k], text, i)

\* C16: matches_negative_filters(text) is true exactly when at least one
\* entry of NEGATIVE_FILTERS is a case-insensitive substring of text, and an
\* element whose content matches is dropped: the block adds no record for
\* it, and the query returns none.
C16_NegativeFilterDrops ==
    /\ (observed.fn = "matches_negative_filters" /\ observed.done)
          => (observed.out <=> Promotes(observed.arg))
    /\ (Processed /\ observed.out.text.some)
          => /\ observed.out.promo <=> Promotes(observed.out.text.v)
             /\ observed.out.promo => (results = <<>> /\ returned[1] = <<>>)

\* the query has returned without a record for an element that has a
\* content in capitals matching 'hire me', a status link and a fresh
\* timestamp
C16_Witness ==
    /\ Processed
    /\ observed.arg = Dom(<<Value(TextPromo), Missing>>, AuthorA,
                          Value(HrefPost1), TimeFresh)
    /\ observed.out.promo
    /\ qstate[1] = "done"
    /\ returned[1] = <<>>

\* matches_negative_filters has answered true for the text of the example:
\* 'Looking for a developer, I am a developer myself'
FilterExampleWitness ==
    /\ observed.fn = "matches_negative_filters"
    /\ observed.done
    /\ observed.arg = TextSpecExample
    /\ observed.out = TRUE

\* the order of the positions of scrape_search: the delay, then navigate,
\* wait, scroll, locate and extract, each of which may be left for the end
\* of the query only as the code allows
Follows(a, b) ==
    \/ <<a, b>> \in {<<"delay", "goto">>, <<"goto", "wait">>,
                      <<"wait", "scroll">>, <<"scroll", "locate">>,
                      <<"locate", "extract">>, <<"locate", "done">>,
                      <<"extract", "done">>}
    \/ a \in {"delay", "goto", "scroll", "locate"} /\ b = "failed"

\* C18: once navigation has failed the query is terminal, and no page
\* operation follows the failed page.goto: the wait was not made, no
\* container was looked up, no element processed, and the query stays
\* failed; the steps of a query occur in the order navigate, wait, scroll,
\* locate, extract, and a query that has ended takes no further step.
C18_NavigationFailureIsTerminal ==
    /\ [][qstate'[1] # qstate[1] => Follows(qstate[1], qstate'[1])]_vars
    /\ [][qstate[1] \in Terminal
            => UNCHANGED <<qstate, tweets, tweet_idx, results, returned, trace,
                           observed, raised_at>>]_vars
    /\ [](raised_at[1] = "goto"
            => /\ qstate[1] = "failed"
               /\ observed.fn = "none"
               /\ tweets = <<>>
               /\ trace = <<>>
               /\ returned[1] = <<>>)

\* page.goto has raised and the query has returned
C18_Witness ==
    /\ raised_at[1] = "goto"
    /\ qstate[1] = "failed"
    /\ returned[1] = <<>>

\* the block has run on an element none of whose author selectors and none
\* of whose timestamp selectors gave a value
OptionalFieldsMissing ==
    /\ Processed
    /\ \A i \in 1..AUTHOR : ~AuthorAcceptable(i)
    /\ \A i \in 1..TIMESTAMP : ~TimeAcceptable(i)

\* the observed element has a content, a URL and an identifier and its
\* content matches no negative filter
RequiredFieldsPresent ==
    /\ Truthy(observed.out.text)
    /\ Truthy(observed.out.url.source_url)
    /\ Truthy(observed.out.url.tweet_id)
    /\ ~Promotes(observed.out.text.v)

\* what the block does on an element without author and timestamp: the
\* author is "Unknown", the timestamp is now, and with the window of the
\* run the element gets its record if content and identifier are there
DefaultsKeepElement ==
    OptionalFieldsMissing
        => /\ observed.out.author = <<"U","n","k","n","o","w","n">>
           /\ observed.out.posted_at = DatetimeNow(NaiveTz)
           /\ RequiredFieldsPresent
                 => /\ Len(results) = 1
                    /\ results[1].author = <<"U","n","k","n","o","w","n">>
                    /\ results[1].postedAt = isoformat(DatetimeNow(NaiveTz))

\* the default timestamp has been tested against a window
WindowTested == observed.fn = "default_timestamp" /\ observed.done

\* C19 as stated: a missing author becomes "Unknown" and a missing
\* timestamp the extraction-time now, so that an element with content and
\* identifier and no negative-filter match is always accepted as fresh,
\* whatever window is configured.
C19_DefaultsAlwaysFresh ==
    /\ DefaultsKeepElement
    /\ WindowTested => observed.out.fresh

\* C19 amended: the same, the default timestamp being fresh under every
\* configured window of at least one hour; under a window of zero hours or
\* less it is not.
C19_DefaultsFreshUnderPositiveWindow ==
    /\ DefaultsKeepElement
    /\ WindowTested
          => /\ observed.out.posted_at = DatetimeNow(NaiveTz)
             /\ observed.out.fresh <=> observed.arg.hours >= 1

\* an element without author element and with an unparsable datetime, with
\* content, identifier and no filter match, has got its record
C19_Witness ==
    /\ OptionalFieldsMissing
    /\ RequiredFieldsPresent
    /\ observed.arg.author = <<Missing, Null>>
    /\ observed.arg.time = <<Value(TimeGarbage), Raise>>
    /\ Len(results) = 1

\* a pass of the while loop has moved the position
Stepping == scroll.pc = "while" /\ scroll'.pc = "while" /\ scroll' # scroll

\* what C20 says besides the size of the steps: the query reaches a
\* terminal position; a burst ends; within a burst the position stays
\* between its start and the start plus the drawn distance of 300 to 800
\* and grows strictly; a burst ends exactly at start plus distance; and
\* human_like_scroll returns after num_scrolls bursts
ScrollTerminates ==
    /\ <>(qstate[1] \in Terminal)
    /\ (scroll.pc = "while") ~> (scroll.pc = "for" \/ qstate[1] = "failed")
    /\ [](scroll.pc = "while"
            => /\ scroll.distance \in ScrollDistanceMin..ScrollDistanceMax
               /\ scroll.start <= scroll.current
               /\ scroll.current <= scroll.start + scroll.distance)
    /\ [][Stepping => scroll'.current > scroll.current]_vars
    /\ [][(scroll.pc = "while" /\ scroll'.pc = "for")
            => /\ scroll.current = scroll.start + scroll.distance
               /\ scroll'.i = scroll.i + 1]_vars
    /\ [](qstate[1] \in {"locate", "extract", "done"}
            => (scroll.pc = "returned" /\ scroll.i = NumScrolls))

\* C20 as stated: every query eventually reaches its terminal state, each
\* scroll burst terminates, its position strictly increasing by steps of 50
\* to 150 and ending exactly at the start position plus the chosen distance
\* of 300 to 800, never beyond it, and the number of bursts equals
\* num_scrolls.
C20_ScrollStepsOf50To150 ==
    /\ ScrollTerminates
    /\ [][Stepping => (scroll'.current - scroll.current)
                         \in ScrollStepMin..ScrollStepMax]_vars

\* C20 amended: the same, the position growing by at most 150 at a time:
\* by the drawn step of 50 to 150, or by what is left to the target when
\* that is less than the drawn step, which may be less than 50.
C20_ScrollStepsClipped ==
    /\ ScrollTerminates
    /\ [][Stepping
            => \/ (scroll'.current - scroll.current)
                     \in ScrollStepMin..ScrollStepMax
               \/ /\ scroll'.current = scroll.start + scroll.distance
                  /\ scroll'.current - scroll.current \in 1..ScrollStepMax]_vars

\* the query has ended normally with a record after two bursts of scrolling
C20_Witness ==
    /\ qstate[1] = "done"
    /\ scroll.pc = "returned"
    /\ scroll.i = NumScrolls
    /\ returned[1] # <<>>

\* a burst of distance 455 from position 1200 is one step of 110 short of
\* its target with 15 left to go
ClippedStepWitness ==
    /\ scroll.pc = "while"
    /\ scroll.start = 1200
    /\ scroll.distance = 455
    /\ scroll.current = 1200 + 4 * 110

\* extract_url has returned for the observed reference
UrlKnown == observed.fn = "extract_url" /\ observed.done

\* the text of href that follows the status-path marker up to, and not
\* including, the next slash or query separator
IdAfterMarker(href) ==
    LET rest == From(href, Find(href, StatusMarker) + Len(StatusMarker))
        stop == {i \in 1..Len(rest) : rest[i] \in {"/", "?"}}
    IN  IF stop = {} THEN rest
        ELSE SubSeq(rest, 1, (CHOOSE i \in stop : \A j \in stop : i <= j) - 1)

\* the marker occurs exactly once in href
SingleMarker(href) ==
    Cardinality({i \in 0..Len(href) : StartsWith(From(href, i), StatusMarker)}) = 1

\* what C21 says of the reference href, base being the reference to the
\* post without what trails it
UrlAsClaimed(href, base) ==
    /\ observed.out.source_url = Some(Origin \o href)
    /\ observed.out.tweet_id = Some(IdAfterMarker(href))
    /\ \A i \in 1..Len(observed.out.tweet_id.v) :
          observed.out.tweet_id.v[i] \notin {"/", "?"}
    /\ observed.out.tweet_id = extract_url([link |-> Value(base)]).tweet_id

\* C21 as stated: for every anchor reference containing the status-path
\* marker, extract_url returns as identifier the text that follows the
\* marker up to the next slash or query separator, which therefore holds
\* neither, and as URL the site origin followed by the reference; a
\* reference that differs from another to the same post only in a trailing
\* sub-path or query string has the same identifier.
C21_IdentifierFollowsMarker ==
    UrlKnown
        => UrlAsClaimed(observed.arg.base \o observed.arg.suffix,
                        observed.arg.base)

\* what holds instead: the same for every reference in which the marker
\* occurs once; when it occurs again in what trails the post, the
\* identifier is taken after its last occurrence
UrlOfSingleMarker ==
    UrlKnown
        => LET href == observed.arg.base \o observed.arg.suffix
           IN  /\ SingleMarker(href) => UrlAsClaimed(href, observed.arg.base)
               /\ observed.out.source_url = Some(Origin \o href)
               /\ \A i \in 1..Len(observed.out.tweet_id.v) :
                     observed.out.tweet_id.v[i] \notin {"/", "?"}

\* the reference to post 22 with a photo sub-path has the identifier 22
UrlOfSingleMarkerWitness ==
    /\ UrlKnown
    /\ observed.arg.suffix = <<"/","p","h","o","t","o","/","1">>
    /\ observed.out.tweet_id = Some(<<"2","2">>)

\* the reference to post 1 with a query string naming another status path
\* has the identifier 9
SecondMarkerWitness ==
    /\ UrlKnown
    /\ observed.arg.base = HrefPost1
    /\ observed.arg.suffix = <<"?","r","e","f","=","/","s","t","a","t","u","s","/","9">>
    /\ observed.out.tweet_id = Some(<<"9">>)

\* the places <<q, i>> at which a query returned a record with identifier id
PlacesOf(id) ==
    {p \in Queries \X (1..MaxTweets) :
        p[2] <= Len(returned[p[1]]) /\ returned[p[1]][p[2]].sourceId = id}

\* the first of them: of the earliest query, and first in its list
FirstPlaceOf(id) ==
    CHOOSE p \in PlacesOf(id) :
        \A o \in PlacesOf(id) : p[1] < o[1] \/ (p[1] = o[1] /\ p[2] <= o[2])

\* the identifiers the queries returned
ReturnedIds == UNION {SourceIds(returned[q]) : q \in Queries}

\* C22: on a completed run every sourceId that occurs in the list returned
\* by a query occurs exactly once in the sequence printed, with the record
\* that was returned first with it, field for field; the sequence holds
\* nothing else, so a query that failed or returned nothing takes no record
\* of another query away.
C22_DeduplicationLosesNothing ==
    RunCompleted
        => /\ \A id \in ReturnedIds :
                 /\ Cardinality({k \in 1..Len(stdout[1]) :
                                    stdout[1][k].sourceId = id}) = 1
                 /\ \E k \in 1..Len(stdout[1]) :
                       stdout[1][k] = returned[FirstPlaceOf(id)[1]][FirstPlaceOf(id)[2]]
           /\ Len(stdout[1]) = Cardinality(ReturnedIds)

\* a completed run whose last query failed after the first had returned the
\* same post twice with different fields, and another post: both posts are
\* printed, the first with the record returned first
C22_Witness ==
    /\ RunCompleted
    /\ qstate[NumQueries] = "failed"
    /\ Len(returned[1]) = 3
    /\ returned[1][1].sourceId = returned[1][2].sourceId
    /\ returned[1][1] # returned[1][2]
    /\ stdout[1] = <<returned[1][1], returned[1][3]>>

====
